---- MODULE Spec2Model ----
(***************************************************************************)
(* react-ptri: the PtriHistoryProvider of packages/core/src/provider.tsx.  *)
(*                                                                         *)
(* The provider keeps a React state {currentRoot, currentBranch,           *)
(* undoStack, redoStack, branches}, a ref rootRef that the write queue and *)
(* the reads use as the current root, and a WriteQueue that applies        *)
(* mutation batches one at a time.  React state updates are queued by      *)
(* setState and applied at the next render; passive effects (useEffect)    *)
(* run after the render that scheduled them.  The model keeps these steps  *)
(* apart, because the code's behaviour depends on their order.             *)
(*                                                                         *)
(* Snapshot ids are strings: "" is the not-yet-seeded root of useState     *)
(* and useRef, "r" is the root client.create() returns, and the root that  *)
(* client.mutate(base, ops) returns for the i-th submission is             *)
(* base \o "." \o i, where an empty base stands for a new empty tree, "r". *)
(*                                                                         *)
(* Timeline and CurrentIndex of the specification are, in this code,       *)
(* undoStack \o <<currentRoot>> \o Reverse(redoStack) and Len(undoStack).  *)
(***************************************************************************)
EXTENDS Naturals, Sequences, FiniteSets, TLC

VARIABLES
    initPc,      \* position of the init effect: "store", "create", "done"
    ready,       \* useState ready, as rendered
    state,       \* useState HistoryState, as rendered
    pending,     \* state updates queued by setState, not yet rendered
    syncEffect,  \* the rootRef sync effect scheduled by the last render
    rootRef,     \* rootRef.current
    queueRef,    \* queueRef.current is set
    queue,       \* WriteQueue.queue (item numbers)
    processing,  \* WriteQueue.processing
    items,       \* the submissions accepted by enqueue, in order
    moves,       \* number of undo/redo/checkout calls
    ret,         \* the last call of the public interface and what it returned
    sub,         \* a usePtriValue(key) hook: its refs, its state, its evaluations
    opfs         \* the origin private file system and the saves of the provider

vars == <<initPc, ready, state, pending, syncEffect, rootRef, queueRef,
          queue, processing, items, moves, ret, sub, opfs>>

-----------------------------------------------------------------------------
(* Bounds of the model *)

MaxSubmits == 2
MaxMoves == 2
MaxWrites == 4
MaxDeep == 102

(* the evaluations a hook can start: one per change of the current root *)
MaxCalls == 3

(* the calls made around a subscription that ends *)
MaxFewCalls == 2

(* the saves of a provider: one at mount, one at ready, one per call *)
MaxSaves == 2 + MaxFewCalls

(* the undo / redo calls made once the history is past its limit *)
MaxLateMoves == 3

(* the commits and the undo / redo calls of a caller that pages through the
   history: two full pages and one entry more *)
MaxPaged == 21
MaxPagedMoves == 21

(* the evaluations of a subscription: one at ready, one per transition *)
MaxEvals == 1 + MaxCalls

(* Program constants *)

HistoryLimit == 100

(* limit of a page of historyScan in the applications and their tests *)
PageLimit == 10

MainBranch == "main"

NoRoot == ""

CreatedRoot == "r"

CheckoutArgs == {"", "x", "main"}

-----------------------------------------------------------------------------
(* Helpers on sequences *)

Last(s) == s[Len(s)]

ButLast(s) == IF s = <<>> THEN <<>> ELSE SubSeq(s, 1, Len(s) - 1)

LastN(s, n) == IF Len(s) <= n THEN s ELSE SubSeq(s, Len(s) - n + 1, Len(s))

Reverse(s) == [k \in 1..Len(s) |-> s[Len(s) + 1 - k]]

-----------------------------------------------------------------------------
(* The Tree Engine: client.mutate(root, ops) of the i-th submission.  An
   empty root makes mutate create a new empty tree and apply the batch to it. *)

EngineBase(root) == IF root = NoRoot THEN CreatedRoot ELSE root

MutateResult(base, i) == EngineBase(base) \o "." \o ToString(i)

-----------------------------------------------------------------------------
(* HistoryState and its updaters *)

InitialState ==
    [currentRoot |-> NoRoot,
     currentBranch |-> MainBranch,
     undoStack |-> <<>>,
     redoStack |-> <<>>,
     branches |-> [n \in {MainBranch} |-> NoRoot]]

SetBranch(b, name, h) ==
    [n \in DOMAIN b \cup {name} |-> IF n = name THEN h ELSE b[n]]

Timeline(s) == s.undoStack \o <<s.currentRoot>> \o Reverse(s.redoStack)

CurrentIndex(s) == Len(s.undoStack)

CanUndo(s) == Len(s.undoStack) > 0

CanRedo(s) == Len(s.redoStack) > 0

InitUpdate(prev, root) ==
    [prev EXCEPT !.currentRoot = root,
                 !.branches = SetBranch(prev.branches, prev.currentBranch, root)]

(* a push that keeps every root *)
CommitPushNoLimit(prev) ==
    IF prev.currentRoot # NoRoot
    THEN Append(prev.undoStack, prev.currentRoot)
    ELSE prev.undoStack

CommitPush(prev) ==
    IF prev.currentRoot # NoRoot
    THEN LastN(Append(prev.undoStack, prev.currentRoot), HistoryLimit)
    ELSE prev.undoStack

(* a commit that keeps the redo stack *)
CommitUpdateKeepRedo(prev, next) ==
    [prev EXCEPT !.currentRoot = next,
                 !.undoStack = CommitPush(prev),
                 !.branches = SetBranch(prev.branches, prev.currentBranch, next)]

CommitUpdate(prev, next) ==
    [prev EXCEPT !.currentRoot = next,
                 !.undoStack = CommitPush(prev),
                 !.redoStack = <<>>,
                 !.branches = SetBranch(prev.branches, prev.currentBranch, next)]

UndoUpdate(prev, previousRoot) ==
    [prev EXCEPT !.currentRoot = previousRoot,
                 !.undoStack = ButLast(prev.undoStack),
                 !.redoStack = IF prev.currentRoot # NoRoot
                               THEN Append(prev.redoStack, prev.currentRoot)
                               ELSE prev.redoStack,
                 !.branches = SetBranch(prev.branches, prev.currentBranch,
                                        previousRoot)]

RedoUpdate(prev, nextRoot) ==
    [prev EXCEPT !.currentRoot = nextRoot,
                 !.undoStack = IF prev.currentRoot # NoRoot
                               THEN Append(prev.undoStack, prev.currentRoot)
                               ELSE prev.undoStack,
                 !.redoStack = ButLast(prev.redoStack),
                 !.branches = SetBranch(prev.branches, prev.currentBranch,
                                        nextRoot)]

CheckoutUpdate(prev, branchOrHash) ==
    IF branchOrHash \in DOMAIN prev.branches
    THEN [prev EXCEPT !.currentBranch = branchOrHash,
                      !.currentRoot = prev.branches[branchOrHash],
                      !.redoStack = <<>>]
    ELSE [prev EXCEPT !.currentBranch = "",
                      !.currentRoot = branchOrHash,
                      !.redoStack = <<>>]

Update(type, arg) == [type |-> type, arg |-> arg]

NoPage == [offset |-> 0, limit |-> 0, reverse |-> FALSE, data |-> <<>>, total |-> 0]

Ret(op, value) == [op |-> op, value |-> value, page |-> NoPage]

(* what historyScan resolves with *)
RetPage(page) == [op |-> "historyScan", value |-> "page", page |-> page]

ApplyUpdate(prev, u) ==
    CASE u.type = "init" -> InitUpdate(prev, u.arg)
      [] u.type = "commit" -> CommitUpdate(prev, u.arg)
      [] u.type = "undo" -> UndoUpdate(prev, u.arg)
      [] u.type = "redo" -> RedoUpdate(prev, u.arg)
      [] u.type = "checkout" -> CheckoutUpdate(prev, u.arg)
      [] OTHER -> prev

RECURSIVE ApplyAll(_, _)
ApplyAll(prev, us) ==
    IF us = <<>> THEN prev ELSE ApplyAll(ApplyUpdate(prev, Head(us)), Tail(us))

-----------------------------------------------------------------------------
(* usePtriValue(key): the value of the watched key and its fingerprint in a
   snapshot.  The submissions with an odd number write the key, the others
   leave it alone; "x" is a snapshot made elsewhere. *)

WatchedKeyWriters == {i \in 1..MaxDeep : i % 2 = 1}

RECURSIVE Val(_)
Val(root) ==
    IF root = "x"
    THEN "vx"
    ELSE IF root # NoRoot /\ \E i \in 1..Len(items) : items[i].result = root
         THEN LET i == CHOOSE n \in 1..Len(items) : items[n].result = root
              IN  IF i \in WatchedKeyWriters
                  THEN "v" \o ToString(i)
                  ELSE Val(EngineBase(items[i].base))
         ELSE "none"

Fingerprint(root) == "fp:" \o Val(root)

(* the snapshot that the provider's fingerprintGet(key) evaluates: the
   rootHash of the render whose effect asked for it *)
FingerprintGetRoot(rootHash, ref) == rootHash

NoFp == "undefined"

NoData == [val |-> "none", obj |-> 0]

Shown(data, fingerprint, loading, error) ==
    [data |-> data, fingerprint |-> fingerprint, loading |-> loading,
     error |-> error]

Unmounted ==
    [mounted |-> FALSE, key |-> TRUE, prevFp |-> NoFp, prevData |-> NoData,
     shown |-> Shown(NoData, NoFp, TRUE, FALSE), evals |-> <<>>]

(* the hook is mounted with the provider: its first evaluation, made before
   the client exists, has failed *)
Mounted ==
    [mounted |-> TRUE, key |-> TRUE, prevFp |-> NoFp, prevData |-> NoData,
     shown |-> Shown(NoData, NoFp, FALSE, TRUE), evals |-> <<>>]

Eval(root) ==
    [root |-> root, st |-> "fp", cancelled |-> FALSE, fp |-> NoFp,
     getRoot |-> NoRoot]

(* an evaluation that has returned: its locals are gone, only the way it
   ended is kept *)
Returned(ev, st) ==
    [root |-> NoRoot, st |-> st, cancelled |-> ev.cancelled, fp |-> NoFp,
     getRoot |-> NoRoot]

(* a cleanup that cancels nothing *)
CleanupNothing(s) == s

(* the cleanup of the effect: the evaluation it started is cancelled *)
Cleanup(s) ==
    [s EXCEPT !.evals =
        [k \in 1..Len(s.evals) |->
            IF s.evals[k].st \in {"fp", "get"}
            THEN [s.evals[k] EXCEPT !.cancelled = TRUE]
            ELSE s.evals[k]]]

(* the effect body when key is undefined *)
NoKeyEffect(s) ==
    [s EXCEPT !.shown = Shown(NoData, NoFp, FALSE, FALSE),
              !.prevFp = NoFp,
              !.prevData = NoData]

(* the effect of the hook for a new rootHash or key: the cleanup of the
   previous effect, then the reset or a new evaluation *)
HookEffect(s, rootHash) ==
    IF ~s.key
    THEN NoKeyEffect(Cleanup(s))
    ELSE [Cleanup(s) EXCEPT !.evals =
             Append(Cleanup(s).evals,
                    Eval(FingerprintGetRoot(rootHash, rootRef)))]

(* a catch that also forgets what was fetched *)
CatchUpdateReset(p) == Shown(NoData, NoFp, FALSE, TRUE)

(* setState((p) => ({ ...p, loading: false, error: e })) *)
CatchUpdate(p) == [p EXCEPT !.loading = FALSE, !.error = TRUE]

(* an evaluation whose result is dropped *)
CancelledNever(ev) == FALSE

Cancelled(ev) == ev.cancelled

(* an evaluation that fetches whatever the fingerprint is *)
FpChangedAlways(fingerprint, prevFp) == TRUE

FpChanged(fingerprint, prevFp) == fingerprint # prevFp

(* a comparison that finds every fetched value new *)
SameBytesNever(a, b) == FALSE

SameBytes(a, b) == a.val = b

-----------------------------------------------------------------------------
(* Persistence of the history metadata in the origin private file system *)

StoreName == "react-ptri"

OtherStoreName == "other"

(* the file a provider writes, whatever its storeName *)
MetadataPath(storeName) == <<"react-ptri", "history.json">>

Paths == {MetadataPath(StoreName), MetadataPath(OtherStoreName)}

(* a file: who wrote it, whether it parses, and what it holds *)
File(by, kind, payload) == [by |-> by, kind |-> kind, payload |-> payload]

(* JSON.stringify of the five fields of the rendered state *)
Payload(s) ==
    [undoStack |-> s.undoStack, redoStack |-> s.redoStack,
     branches |-> s.branches, currentBranch |-> s.currentBranch,
     currentRoot |-> s.currentRoot]

(* a payload that takes the root from the ref *)
PayloadFromRef(s) == [Payload(s) EXCEPT !.currentRoot = rootRef]

NoPayload == Payload(InitialState)

Absent == File("nobody", "absent", NoPayload)

(* the dependencies of the persistence effect: every updater of the history
   state returns new arrays, setReady touches none of them *)
SaveDeps(us) == \E k \in 1..Len(us) : us[k].type # "ready"

(* the effect captures the rendered state *)
Captured(s) == Payload(s)

(* a save in flight: opening the file, then write, then close *)
Save(payload) == [st |-> "open", payload |-> payload]

(* a save that has returned *)
SaveReturned(st) == [st |-> st, payload |-> NoPayload]

(* a catch that resets the history *)
SaveCatchReset(s) == InitialState

(* catch {} *)
SaveCatch(s) == s

(* what a session of an earlier page load left: a commit made and undone *)
PersistedState ==
    [currentRoot |-> "p", currentBranch |-> MainBranch,
     undoStack |-> <<>>, redoStack |-> <<"p.1">>,
     branches |-> SetBranch(InitialState.branches, MainBranch, "p")]

(* the state of the other provider *)
OtherState ==
    [currentRoot |-> "o", currentBranch |-> MainBranch,
     undoStack |-> <<>>, redoStack |-> <<>>,
     branches |-> SetBranch(InitialState.branches, MainBranch, "o")]

NoStorage ==
    [storage |-> FALSE, atStart |-> Absent,
     files |-> [p \in Paths |-> Absent], saveEffect |-> <<>>, saves |-> <<>>]

(* storage is available and holds `file`; the persistence effect of the first
   render has started *)
Storage(file) ==
    [storage |-> TRUE, atStart |-> file,
     files |-> [p \in Paths |-> file], saveEffect |-> <<>>,
     saves |-> <<Save(Captured(InitialState))>>]

StartFiles ==
    {Absent, File(StoreName, "malformed", NoPayload),
     File(StoreName, "json", Payload(PersistedState))}

-----------------------------------------------------------------------------
(* The state after construction: first render done, init effect started *)

InitProvider ==
    /\ initPc = "store"
    /\ ready = FALSE
    /\ state = InitialState
    /\ pending = <<>>
    /\ syncEffect = <<>>
    /\ rootRef = NoRoot
    /\ queueRef = FALSE
    /\ queue = <<>>
    /\ processing = FALSE
    /\ items = <<>>
    /\ moves = 0
    /\ ret = Ret("none", "none")

(* no component uses the hook, navigator.storage is not available *)
Init == InitProvider /\ sub = Unmounted /\ opfs = NoStorage

(* a component under the provider uses usePtriValue(key) *)
InitSub == InitProvider /\ sub = Mounted /\ opfs = NoStorage

(* storage is available, first session *)
InitPersist == InitProvider /\ sub = Unmounted /\ opfs = Storage(Absent)

(* storage is available, with or without metadata of an earlier session *)
InitStart ==
    /\ InitProvider
    /\ sub = Unmounted
    /\ \E file \in StartFiles : opfs = Storage(file)

-----------------------------------------------------------------------------
(* The continuation of `await enqueue(ops)` in mutate() is a microtask queued
   by item.resolve: it runs before any other task of the page. *)
Microtask == \E i \in 1..Len(items) : items[i].st = "resolved"

-----------------------------------------------------------------------------
(* The init effect *)

InitStore ==
    /\ ~Microtask
    /\ initPc = "store"
    /\ initPc' = "create"
    /\ UNCHANGED <<opfs, sub, ready, state, pending, syncEffect, rootRef, queueRef,
                   queue, processing, items, moves, ret>>

InitCreate ==
    /\ ~Microtask
    /\ initPc = "create"
    /\ initPc' = "done"
    /\ pending' = pending \o <<Update("init", CreatedRoot), Update("ready", "")>>
    /\ UNCHANGED <<opfs, sub, ready, state, syncEffect, rootRef, queueRef,
                   queue, processing, items, moves, ret>>

-----------------------------------------------------------------------------
(* React: a render applies the queued updates, creates the write queue once
   the client exists, and schedules the effects whose dependencies changed;
   the effects of a render run before the next render. *)

ClientSet == initPc # "store"

Render ==
    /\ ~Microtask
    /\ pending # <<>>
    /\ syncEffect = <<>> /\ opfs.saveEffect = <<>>
    /\ state' = ApplyAll(state, pending)
    /\ ready' = (ready \/ \E k \in 1..Len(pending) : pending[k].type = "ready")
    /\ pending' = <<>>
    /\ queueRef' = (queueRef \/ ClientSet)
    /\ syncEffect' = IF state'.currentRoot # state.currentRoot
                     THEN <<state'.currentRoot>>
                     ELSE <<>>
    /\ opfs' = IF opfs.storage /\ SaveDeps(pending)
               THEN [opfs EXCEPT !.saveEffect = <<Captured(state')>>]
               ELSE opfs
    /\ UNCHANGED <<sub, initPc, rootRef, queue, processing, items, moves, ret>>

RunEffects ==
    /\ ~Microtask
    /\ syncEffect # <<>> \/ opfs.saveEffect # <<>>
    /\ rootRef' = IF syncEffect # <<>> THEN syncEffect[1] ELSE rootRef
    /\ sub' = IF sub.mounted /\ syncEffect # <<>>
              THEN HookEffect(sub, syncEffect[1])
              ELSE sub
    /\ syncEffect' = <<>>
    /\ opfs' = IF opfs.saveEffect # <<>>
               THEN [opfs EXCEPT !.saveEffect = <<>>,
                                 !.saves = Append(@, Save(opfs.saveEffect[1]))]
               ELSE opfs
    /\ UNCHANGED <<initPc, ready, state, pending, queueRef,
                   queue, processing, items, moves, ret>>

-----------------------------------------------------------------------------
(* WriteQueue *)

Item(st, base, result) == [st |-> st, base |-> base, result |-> result]

Outstanding == {i \in 1..Len(items) : items[i].st = "applying"}

(* a queue that starts process() at every enqueue *)
BusyNever == FALSE

(* a queue whose processor never starts *)
BusyAlways == TRUE

Busy == processing

GetRoot(ref) == ref

(* a queue that takes the newest item first *)
Pop(q) == [item |-> Last(q), rest |-> ButLast(q)]

Shift(q) == [item |-> Head(q), rest |-> Tail(q)]

(* process(): the loop from its top, with queue q, items it and root ref *)
Loop(q, it, ref) ==
    IF q = <<>>
    THEN /\ queue' = q
         /\ items' = it
         /\ processing' = FALSE
    ELSE /\ queue' = Shift(q).rest
         /\ items' = [it EXCEPT ![Shift(q).item] =
                          Item("applying", GetRoot(ref), NoRoot)]
         /\ processing' = TRUE

Enqueue ==
    LET i == Len(items) + 1
        q == Append(queue, i)
        it == Append(items, Item("queued", NoRoot, NoRoot))
    IN  IF Busy
        THEN /\ queue' = q
             /\ items' = it
             /\ UNCHANGED processing
        ELSE Loop(q, it, rootRef)

(* mutate(ops) up to its await; without a write queue it throws *)
MutateCall(limit) ==
    /\ ~Microtask
    /\ IF ~queueRef
       THEN /\ moves < MaxMoves
            /\ moves' = moves + 1
            /\ ret' = Ret("mutate", "notReady")
            /\ UNCHANGED <<queue, processing, items>>
       ELSE /\ Len(items) < limit
            /\ Enqueue
            /\ ret' = Ret("mutate", "pending")
            /\ UNCHANGED moves
    /\ UNCHANGED <<opfs, sub, initPc, ready, state, pending, syncEffect, rootRef, queueRef>>

Mutate(limit) == ready /\ MutateCall(limit)

MutateEarly == ~ready /\ MutateCall(MaxSubmits)

EngineResolve(i) ==
    /\ ~Microtask
    /\ i \in Outstanding
    /\ LET next == MutateResult(items[i].base, i)
           it == [items EXCEPT ![i] = Item("resolved", items[i].base, next)]
       IN  /\ rootRef' = next
           /\ Loop(queue, it, next)
    /\ UNCHANGED <<opfs, sub, initPc, ready, state, pending, syncEffect, queueRef, moves, ret>>

EngineReject(i) ==
    /\ ~Microtask
    /\ i \in Outstanding
    /\ LET it == [items EXCEPT ![i] = Item("rejected", items[i].base, NoRoot)]
       IN  Loop(queue, it, rootRef)
    /\ UNCHANGED <<opfs, sub, initPc, ready, state, pending, syncEffect, rootRef, queueRef,
                   moves, ret>>

(* mutate() after its await: setState, return next *)
MutateCommit(i) ==
    /\ i \in 1..Len(items)
    /\ items[i].st = "resolved"
    /\ pending' = Append(pending, Update("commit", items[i].result))
    /\ items' = [items EXCEPT ![i].st = "committed"]
    /\ UNCHANGED <<opfs, sub, initPc, ready, state, syncEffect, rootRef, queueRef,
                   queue, processing, moves, ret>>

(* the caller's continuation of `await mutate(ops)` *)
Observe(i) ==
    /\ ~Microtask
    /\ i \in 1..Len(items)
    /\ items[i].st = "committed"
    /\ items' = [items EXCEPT ![i].st = "returned"]
    /\ UNCHANGED <<opfs, sub, initPc, ready, state, pending, syncEffect, rootRef, queueRef,
                   queue, processing, moves, ret>>

-----------------------------------------------------------------------------
(* undo, redo, checkout: the callbacks of the last render.  The callers use
   the interface once ready is rendered. *)

UndoWithin(limit) ==
    /\ ~Microtask
    /\ moves < limit
    /\ moves' = moves + 1
    /\ IF ~CanUndo(state)
       THEN /\ ret' = Ret("undo", "false")
            /\ UNCHANGED pending
       ELSE /\ pending' = Append(pending, Update("undo", Last(state.undoStack)))
            /\ ret' = Ret("undo", "true")
    /\ UNCHANGED <<opfs, sub, initPc, ready, state, syncEffect, rootRef, queueRef,
                   queue, processing, items>>

UndoCall == UndoWithin(MaxMoves)

Undo == ready /\ UndoCall

UndoEarly == ~ready /\ UndoCall

RedoWithin(limit) ==
    /\ ~Microtask
    /\ moves < limit
    /\ moves' = moves + 1
    /\ IF ~CanRedo(state)
       THEN /\ ret' = Ret("redo", "false")
            /\ UNCHANGED pending
       ELSE /\ pending' = Append(pending, Update("redo", Last(state.redoStack)))
            /\ ret' = Ret("redo", "true")
    /\ UNCHANGED <<opfs, sub, initPc, ready, state, syncEffect, rootRef, queueRef,
                   queue, processing, items>>

RedoCall == RedoWithin(MaxMoves)

Redo == ready /\ RedoCall

RedoEarly == ~ready /\ RedoCall

CheckoutCall(branchOrHash) ==
    /\ ~Microtask
    /\ moves < MaxMoves
    /\ moves' = moves + 1
    /\ pending' = Append(pending, Update("checkout", branchOrHash))
    /\ ret' = Ret("checkout", "void")
    /\ UNCHANGED <<opfs, sub, initPc, ready, state, syncEffect, rootRef, queueRef,
                   queue, processing, items>>

Checkout(branchOrHash) == ready /\ CheckoutCall(branchOrHash)

CheckoutEarly(branchOrHash) == ~ready /\ CheckoutCall(branchOrHash)

(* get(key) and scan(opts): without a client they throw, with one they read
   at rootRef.current *)
GetCall ==
    /\ ~Microtask
    /\ moves < MaxMoves
    /\ moves' = moves + 1
    /\ ret' = IF ~ClientSet
              THEN Ret("get", "notReady")
              ELSE Ret("get", rootRef)
    /\ UNCHANGED <<opfs, sub, initPc, ready, state, pending, syncEffect, rootRef, queueRef,
                   queue, processing, items>>

GetEarly == ~ready /\ GetCall

Get == ready /\ GetCall

(* get(key) or scan(opts) whose engine read rejects *)
GetThrows ==
    /\ ~Microtask
    /\ ready /\ ClientSet
    /\ moves < MaxMoves
    /\ moves' = moves + 1
    /\ ret' = Ret("get", "error")
    /\ UNCHANGED <<opfs, sub, initPc, ready, state, pending, syncEffect, rootRef, queueRef,
                   queue, processing, items>>

-----------------------------------------------------------------------------
(* usePtriValue: the continuations of an evaluation *)

(* after `await fingerprintGet(key)` *)
FpDone(e) ==
    /\ ~Microtask
    /\ e \in 1..Len(sub.evals)
    /\ sub.evals[e].st = "fp"
    /\ LET ev == sub.evals[e]
           fingerprint == Fingerprint(ev.root)
       IN  sub' =
             IF Cancelled(ev)
             THEN [sub EXCEPT !.evals[e] = Returned(ev, "dropped")]
             ELSE IF FpChanged(fingerprint, sub.prevFp)
                  THEN [sub EXCEPT !.evals[e].st = "get",
                                   !.evals[e].fp = fingerprint,
                                   !.evals[e].getRoot = rootRef]
                  ELSE [sub EXCEPT !.evals[e] = Returned(ev, "unchanged"),
                                   !.shown.loading = FALSE]
    /\ UNCHANGED <<opfs, initPc, ready, state, pending, syncEffect, rootRef, queueRef,
                   queue, processing, items, moves, ret>>

(* after `await get(key)` *)
GetDone(e) ==
    /\ ~Microtask
    /\ e \in 1..Len(sub.evals)
    /\ sub.evals[e].st = "get"
    /\ LET ev == sub.evals[e]
           data == Val(ev.getRoot)
           kept == IF SameBytes(sub.prevData, data)
                   THEN sub.prevData
                   ELSE [val |-> data, obj |-> e]
       IN  sub' =
             IF Cancelled(ev)
             THEN [sub EXCEPT !.evals[e] = Returned(ev, "dropped")]
             ELSE [sub EXCEPT !.evals[e] = Returned(ev, "done"),
                              !.prevFp = ev.fp,
                              !.prevData = kept,
                              !.shown = Shown(kept, ev.fp, FALSE, FALSE)]
    /\ UNCHANGED <<opfs, initPc, ready, state, pending, syncEffect, rootRef, queueRef,
                   queue, processing, items, moves, ret>>

(* fingerprintGet(key) or get(key) of an evaluation throws *)
ReadFail(e) ==
    /\ ~Microtask
    /\ e \in 1..Len(sub.evals)
    /\ sub.evals[e].st \in {"fp", "get"}
    /\ LET ev == sub.evals[e]
       IN  sub' =
             IF Cancelled(ev)
             THEN [sub EXCEPT !.evals[e] = Returned(ev, "dropped")]
             ELSE [sub EXCEPT !.evals[e] = Returned(ev, "failed"),
                              !.shown = CatchUpdate(sub.shown)]
    /\ UNCHANGED <<opfs, initPc, ready, state, pending, syncEffect, rootRef, queueRef,
                   queue, processing, items, moves, ret>>

(* the component that uses the hook is unmounted *)
Unmount ==
    /\ ~Microtask
    /\ sub.mounted
    /\ sub' = [Cleanup(sub) EXCEPT !.mounted = FALSE]
    /\ UNCHANGED <<opfs, initPc, ready, state, pending, syncEffect, rootRef, queueRef,
                   queue, processing, items, moves, ret>>

(* the component renders the hook with key undefined *)
KeyCleared ==
    /\ ~Microtask
    /\ sub.mounted /\ sub.key
    /\ sub' = HookEffect([sub EXCEPT !.key = FALSE], state.currentRoot)
    /\ UNCHANGED <<opfs, initPc, ready, state, pending, syncEffect, rootRef, queueRef,
                   queue, processing, items, moves, ret>>

-----------------------------------------------------------------------------
(* The persistence effect: the steps of a save *)

SaveStages == <<"open", "write", "close">>

(* the awaited step of save k succeeds; close puts the payload in the file *)
SaveStep(k) ==
    /\ ~Microtask
    /\ k \in 1..Len(opfs.saves)
    /\ opfs.saves[k].st \in {"open", "write", "close"}
    /\ opfs' =
         CASE opfs.saves[k].st = "open" ->
                [opfs EXCEPT !.saves[k].st = "write"]
           [] opfs.saves[k].st = "write" ->
                [opfs EXCEPT !.saves[k].st = "close"]
           [] opfs.saves[k].st = "close" ->
                [opfs EXCEPT !.saves[k] = SaveReturned("done"),
                             !.files[MetadataPath(StoreName)] =
                                 File(StoreName, "json", opfs.saves[k].payload)]
    /\ UNCHANGED <<sub, initPc, ready, state, pending, syncEffect, rootRef,
                   queueRef, queue, processing, items, moves, ret>>

(* the awaited step of save k throws *)
SaveFail(k) ==
    /\ ~Microtask
    /\ k \in 1..Len(opfs.saves)
    /\ opfs.saves[k].st \in {"open", "write", "close"}
    /\ opfs' = [opfs EXCEPT !.saves[k] = SaveReturned("failed")]
    /\ state' = SaveCatch(state)
    /\ UNCHANGED <<sub, initPc, ready, pending, syncEffect, rootRef,
                   queueRef, queue, processing, items, moves, ret>>

(* a provider constructed with another storeName completes a save *)
OtherSave ==
    /\ ~Microtask
    /\ opfs.storage
    /\ opfs.files[MetadataPath(OtherStoreName)]
         # File(OtherStoreName, "json", Payload(OtherState))
    /\ opfs' = [opfs EXCEPT !.files[MetadataPath(OtherStoreName)] =
                     File(OtherStoreName, "json", Payload(OtherState))]
    /\ UNCHANGED <<sub, initPc, ready, state, pending, syncEffect, rootRef,
                   queueRef, queue, processing, items, moves, ret>>

-----------------------------------------------------------------------------
(* Specifications *)

Next ==
    \/ \E i \in 1..MaxSubmits : MutateCommit(i)
    \/ InitStore
    \/ InitCreate
    \/ Render
    \/ RunEffects
    \/ Mutate(MaxSubmits)
    \/ \E i \in 1..MaxSubmits : EngineResolve(i)
    \/ \E i \in 1..MaxSubmits : EngineReject(i)
    \/ Undo
    \/ Redo
    \/ \E a \in CheckoutArgs : Checkout(a)

Spec == Init /\ [][Next]_vars

(* Writers only: any number of callers submit without awaiting *)
NextWrites ==
    \/ \E i \in 1..MaxWrites : MutateCommit(i)
    \/ InitStore
    \/ InitCreate
    \/ Render
    \/ RunEffects
    \/ Mutate(MaxWrites)
    \/ \E i \in 1..MaxWrites : EngineResolve(i)
    \/ \E i \in 1..MaxWrites : EngineReject(i)

SpecWrites == Init /\ [][NextWrites]_vars

(* The same callers, with every engine call settling and every continuation
   of a settled promise run *)
EngineSettles == \E i \in 1..MaxWrites : EngineResolve(i) \/ EngineReject(i)

ContinuationRuns == \E i \in 1..MaxWrites : MutateCommit(i)

SpecWritesLive ==
    /\ Init
    /\ [][NextWrites]_vars
    /\ WF_vars(EngineSettles)
    /\ WF_vars(ContinuationRuns)

(* Callers that also read *)
NextReads ==
    \/ \E i \in 1..MaxSubmits : MutateCommit(i)
    \/ InitStore
    \/ InitCreate
    \/ Render
    \/ RunEffects
    \/ Mutate(MaxSubmits)
    \/ \E i \in 1..MaxSubmits : EngineResolve(i)
    \/ Undo
    \/ Redo
    \/ \E a \in CheckoutArgs : Checkout(a)
    \/ Get

SpecReads == Init /\ [][NextReads]_vars

(* Callers that use the interface before ready is rendered *)
NextBoot ==
    \/ \E i \in 1..MaxSubmits : MutateCommit(i)
    \/ InitStore
    \/ InitCreate
    \/ Render
    \/ RunEffects
    \/ \E a \in CheckoutArgs : CheckoutEarly(a)
    \/ MutateEarly
    \/ UndoEarly
    \/ RedoEarly
    \/ GetEarly
    \/ \E i \in 1..MaxSubmits : EngineResolve(i)

SpecBoot == Init /\ [][NextBoot]_vars

(* The provider with a component that watches a key; the callers make
   MaxCalls calls in all *)
Calls == Len(items) + moves

MutateWatched == Calls < MaxCalls /\ Mutate(MaxSubmits)

UndoWatched == Calls < MaxCalls /\ Undo

RedoWatched == Calls < MaxCalls /\ Redo

CheckoutWatched(branchOrHash) == Calls < MaxCalls /\ Checkout(branchOrHash)

NextSub ==
    \/ \E i \in 1..MaxSubmits : MutateCommit(i)
    \/ InitStore
    \/ InitCreate
    \/ Render
    \/ RunEffects
    \/ MutateWatched
    \/ \E i \in 1..MaxSubmits : EngineResolve(i)
    \/ UndoWatched
    \/ RedoWatched
    \/ CheckoutWatched("x")
    \/ \E e \in 1..MaxEvals : FpDone(e)
    \/ \E e \in 1..MaxEvals : GetDone(e)

SpecSub == InitSub /\ [][NextSub]_vars

(* The same, with reads that fail and a subscription that ends; the callers
   make MaxFewCalls calls in all *)
MutateFew == Calls < MaxFewCalls /\ Mutate(MaxSubmits)

UndoFew == Calls < MaxFewCalls /\ Undo

GetThrowsFew == Calls < MaxFewCalls /\ GetThrows

NextUnsub ==
    \/ \E i \in 1..MaxSubmits : MutateCommit(i)
    \/ InitStore
    \/ InitCreate
    \/ Render
    \/ RunEffects
    \/ MutateFew
    \/ \E i \in 1..MaxSubmits : EngineResolve(i)
    \/ UndoFew
    \/ GetThrowsFew
    \/ \E e \in 1..MaxEvals : FpDone(e)
    \/ \E e \in 1..MaxEvals : GetDone(e)
    \/ \E e \in 1..MaxEvals : ReadFail(e)
    \/ Unmount
    \/ KeyCleared

SpecUnsub == InitSub /\ [][NextUnsub]_vars

(* The provider with storage; the callers make MaxFewCalls calls in all *)
NextPersist ==
    \/ \E i \in 1..MaxSubmits : MutateCommit(i)
    \/ InitStore
    \/ InitCreate
    \/ Render
    \/ RunEffects
    \/ MutateFew
    \/ \E i \in 1..MaxSubmits : EngineResolve(i)
    \/ UndoFew
    \/ \E k \in 1..MaxSaves : SaveStep(k)
    \/ \E k \in 1..MaxSaves : SaveFail(k)

SpecPersist == InitPersist /\ [][NextPersist]_vars

(* The provider started on what an earlier session left, next to a provider
   with another storeName *)
NextStart ==
    \/ \E i \in 1..MaxSubmits : MutateCommit(i)
    \/ InitStore
    \/ InitCreate
    \/ Render
    \/ RunEffects
    \/ MutateFew
    \/ \E i \in 1..MaxSubmits : EngineResolve(i)
    \/ \E k \in 1..MaxSaves : SaveStep(k)
    \/ OtherSave

SpecStart == InitStart /\ [][NextStart]_vars

(* One caller that awaits each mutate before it submits the next *)
Settled(i) == items[i].st \in {"returned", "rejected"}

AllSettled == \A i \in 1..Len(items) : Settled(i)

MutateAwaited == AllSettled /\ Mutate(MaxWrites)

NextAwait ==
    \/ \E i \in 1..MaxWrites : MutateCommit(i)
    \/ InitStore
    \/ InitCreate
    \/ Render
    \/ RunEffects
    \/ MutateAwaited
    \/ \E i \in 1..MaxWrites : EngineResolve(i)
    \/ \E i \in 1..MaxWrites : EngineReject(i)
    \/ \E i \in 1..MaxWrites : Observe(i)

SpecAwait == Init /\ [][NextAwait]_vars

(* A caller that also waits for the commit to be rendered (as the history
   tests do, which wait for the displayed root to change), every batch
   accepted by the engine, past the history limit *)
Quiescent == pending = <<>> /\ syncEffect = <<>>

MutateRendered == AllSettled /\ Quiescent /\ Mutate(MaxDeep)

NextDeep ==
    \/ \E i \in 1..MaxDeep : MutateCommit(i)
    \/ InitStore
    \/ InitCreate
    \/ Render
    \/ RunEffects
    \/ MutateRendered
    \/ \E i \in 1..MaxDeep : EngineResolve(i)
    \/ \E i \in 1..MaxDeep : Observe(i)

SpecDeep == Init /\ [][NextDeep]_vars

(* The same caller, who after its commits calls undo and redo without
   waiting for a render between the calls *)
MutateEarlier == moves = 0 /\ MutateRendered

UndoLate == ready /\ AllSettled /\ UndoWithin(MaxLateMoves)

RedoLate == ready /\ AllSettled /\ RedoWithin(MaxLateMoves)

NextLimit ==
    \/ \E i \in 1..MaxDeep : MutateCommit(i)
    \/ InitStore
    \/ InitCreate
    \/ Render
    \/ RunEffects
    \/ MutateEarlier
    \/ \E i \in 1..MaxDeep : EngineResolve(i)
    \/ \E i \in 1..MaxDeep : Observe(i)
    \/ UndoLate
    \/ RedoLate

SpecLimit == Init /\ [][NextLimit]_vars

-----------------------------------------------------------------------------
(* historyScan and historyOffsetFromHead of the context value.  The scan
   orders the entries of its direction nearest first, then applies offset
   and limit. *)

HistoryOffsetFromHead(s) == Len(Timeline(s)) - 1 - CurrentIndex(s)

NearestFirstWithCurrent(s, reverse) ==
    IF reverse
    THEN Reverse(SubSeq(Timeline(s), 1, CurrentIndex(s) + 1))
    ELSE SubSeq(Timeline(s), CurrentIndex(s) + 1, Len(Timeline(s)))

ClipFromStart(order, offset, limit) ==
    IF limit <= 0
    THEN <<>>
    ELSE SubSeq(order, 1, IF limit < Len(order) THEN limit ELSE Len(order))

NearestFirst(s, reverse) ==
    IF reverse
    THEN Reverse(SubSeq(Timeline(s), 1, CurrentIndex(s)))
    ELSE SubSeq(Timeline(s), CurrentIndex(s) + 2, Len(Timeline(s)))

Clip(order, offset, limit) ==
    IF offset >= Len(order) \/ limit <= 0
    THEN <<>>
    ELSE SubSeq(order, offset + 1,
                IF offset + limit < Len(order) THEN offset + limit ELSE Len(order))

HistoryScanResult(s, offset, limit, reverse) ==
    [offset |-> offset, limit |-> limit, reverse |-> reverse,
     data |-> Clip(NearestFirst(s, reverse), offset, limit),
     total |-> Len(NearestFirst(s, reverse))]

ScanOffsets == {0, PageLimit, 2 * PageLimit}

ScanLimits == {1, PageLimit}

(* A caller that pages through the history: each call is made once the
   previous one is rendered, as the history tests do *)
HistoryScan(offset, limit, reverse) ==
    /\ ready
    /\ ~Microtask
    /\ AllSettled
    /\ Quiescent
    /\ ret' = RetPage(HistoryScanResult(state, offset, limit, reverse))
    /\ UNCHANGED <<opfs, sub, initPc, ready, state, pending, syncEffect, rootRef, queueRef,
                   queue, processing, items, moves>>

AtHead(s) == CurrentIndex(s) = Len(Timeline(s)) - 1

MutatePaged == AllSettled /\ Quiescent /\ AtHead(state) /\ Mutate(MaxPaged)

UndoPaged == ready /\ AllSettled /\ Quiescent /\ UndoWithin(MaxPagedMoves)

RedoPaged == ready /\ AllSettled /\ Quiescent /\ RedoWithin(MaxPagedMoves)

NextHistory ==
    \/ \E i \in 1..MaxPaged : MutateCommit(i)
    \/ InitStore
    \/ InitCreate
    \/ Render
    \/ RunEffects
    \/ MutatePaged
    \/ \E i \in 1..MaxPaged : EngineResolve(i)
    \/ \E i \in 1..MaxPaged : Observe(i)
    \/ UndoPaged
    \/ RedoPaged
    \/ \E offset \in ScanOffsets, limit \in ScanLimits, reverse \in BOOLEAN :
          HistoryScan(offset, limit, reverse)

SpecHistory == Init /\ [][NextHistory]_vars

-----------------------------------------------------------------------------
(* Vocabulary of the claims *)

Started(i) == items[i].st # "queued"

Succeeded(i) == items[i].st \in {"resolved", "committed", "returned"}

Handled(i) == items[i].st \in {"resolved", "rejected", "committed", "returned"}

Max(S) == CHOOSE x \in S : \A y \in S : y <= x

(* the root of the last submission before k that the engine accepted *)
LastAccepted(k) ==
    LET S == {i \in 1..(k - 1) : Succeeded(i)}
    IN  IF S = {} THEN CreatedRoot ELSE items[Max(S)].result

(* the state before and after the k-th queued update *)
Before(k) == ApplyAll(state, SubSeq(pending, 1, k - 1))

After(k) == ApplyUpdate(Before(k), pending[k])

IsPrefix(s, t) == Len(s) <= Len(t) /\ \A p \in 1..Len(s) : s[p] = t[p]

CommitsQueued == Len(SelectSeq(pending, LAMBDA u : u.type = "commit"))

(* the number of commits applied to the rendered state *)
CommitsApplied ==
    Cardinality({i \in 1..Len(items) : items[i].st \in {"committed", "returned"}})
        - CommitsQueued

Min(a, b) == IF a <= b THEN a ELSE b

-----------------------------------------------------------------------------
(* C1: of two mutations submitted one after the other without awaiting the
   first, the second is never applied to the same snapshot as the first: when
   the first succeeds with id h1, the engine call of the second receives h1
   as its base.  (SpecWrites) *)
C1_SecondAppliedOnFirst ==
    \A i, j \in 1..Len(items) :
        (i < j /\ Succeeded(i) /\ Started(j)) =>
            /\ EngineBase(items[j].base) # EngineBase(items[i].base)
            /\ (\A k \in (i + 1)..(j - 1) : ~Succeeded(k)) =>
                   items[j].base = items[i].result

(* C2: at most one client.mutate call of the write queue is outstanding, for
   any number of enqueue calls, also while an item is being processed.
   (SpecWrites) *)
C2_OneOutstanding == Cardinality(Outstanding) <= 1

C2_Witness == Cardinality(Outstanding) = 1 /\ Len(queue) >= 2

(* C3: submissions complete in FIFO order: when submission A was enqueued
   before B, A's handle is settled (resolved or rejected) before B's engine
   call starts, hence before B's handle is settled.  (SpecWrites) *)
C3_Fifo ==
    \A i, j \in 1..Len(items) : (i < j /\ Started(j)) => Handled(i)

C3_Witness ==
    /\ Len(items) >= 3
    /\ items[1].st = "rejected"
    /\ Succeeded(2)
    /\ items[3].st = "applying"

(* C4: a batch the engine rejects fails only its own submission: the step
   that rejects it changes neither the React state, nor the queued updates,
   nor the write base, the queue goes on, and the next queued submission is
   applied to the last snapshot the engine accepted.  (SpecWrites) *)
C4_RejectedIsLocal ==
    [][\A i \in 1..Len(items) :
          (items[i].st = "applying" /\ items'[i].st = "rejected") =>
              /\ state' = state
              /\ pending' = pending
              /\ rootRef' = rootRef
              /\ \A k \in 1..Len(items) :
                     (k # i /\ items'[k] # items[k]) =>
                         /\ queue # <<>>
                         /\ k = Head(queue)
                         /\ items'[k].st = "applying"
                         /\ EngineBase(items'[k].base) = LastAccepted(i)
              /\ (queue # <<>> => items'[Head(queue)].st = "applying")]_vars

(* C5: the caller that awaits mutate(ops) sees it complete only after the
   commit: once the promise has resolved with id h and nothing else was
   submitted, h is the last entry of the Timeline and the rootHash exposed
   to callers.  (SpecAwait) *)
C5_CompletionAfterCommit ==
    (Len(items) >= 1 /\ items[Len(items)].st = "returned") =>
        /\ state.currentRoot = items[Len(items)].result
        /\ Last(Timeline(state)) = items[Len(items)].result

(* the submission whose root the queued commit u carries *)
ItemOf(u) == CHOOSE i \in 1..Len(items) : items[i].result = u.arg

IsMove(u) == u.type \in {"undo", "redo"}

IsOperation(u) == u.type \in {"commit", "undo", "redo", "checkout"}

(* C6: undo and redo are atomic with respect to the commits of mutations:
   when an undo or redo is applied and then the commit of a mutation that
   overlapped it, the result is that of running one entirely before the
   other, so the committed id was computed from the Timeline entry it is
   placed after.  (Spec) *)
C6_UndoRedoAtomic ==
    \A k \in 1..Len(pending) :
        (/\ pending[k].type = "commit"
         /\ \E m \in 1..(k - 1) : IsMove(pending[m])) =>
            /\ Before(k).currentRoot = EngineBase(items[ItemOf(pending[k])].base)
            /\ Timeline(After(k))[CurrentIndex(After(k))] =
                   EngineBase(items[ItemOf(pending[k])].base)

(* C7: a commit applied while CurrentIndex < Len(Timeline) - 1 discards every
   Timeline entry after the prior CurrentIndex and appends the new id; right
   after it canRedo is false and the new id is the head.  (Spec) *)
C7_CommitTruncates ==
    \A k \in 1..Len(pending) :
        (pending[k].type = "commit" /\ CanRedo(Before(k))) =>
            /\ Timeline(After(k)) =
                   SubSeq(Timeline(Before(k)), 1, CurrentIndex(Before(k)) + 1)
                       \o <<pending[k].arg>>
            /\ ~CanRedo(After(k))
            /\ After(k).currentRoot = pending[k].arg
            /\ CurrentIndex(After(k)) = Len(Timeline(After(k))) - 1

C7_Witness ==
    \E k \in 1..Len(pending) :
        /\ pending[k].type = "commit"
        /\ CanRedo(Before(k))
        /\ Len(Timeline(After(k))) < Len(Timeline(Before(k))) + 1

(* C8, as stated: after N commits from a fresh instance, with no undo, redo
   or checkout, the Timeline has N + 1 entries and CurrentIndex is the last,
   for every N.  (SpecDeep) *)
C8_LengthIsCommitsPlusOne ==
    /\ Len(Timeline(state)) = CommitsApplied + 1
    /\ CurrentIndex(state) = Len(Timeline(state)) - 1

(* C8, amended: the Timeline has N + 1 entries up to N = 100 commits and 101
   entries from then on (the undo stack keeps the last 100 roots);
   CurrentIndex is the last after each commit.  (SpecDeep) *)
C8_LengthUpToLimit ==
    /\ Len(Timeline(state)) = Min(CommitsApplied, HistoryLimit) + 1
    /\ CurrentIndex(state) = Len(Timeline(state)) - 1

C8_Witness ==
    /\ CommitsApplied > HistoryLimit
    /\ Len(Timeline(state)) = HistoryLimit + 1
    /\ state.currentRoot = items[Len(items)].result

(* C9: no operation removes a Timeline entry at a position <= CurrentIndex:
   undo and redo keep the Timeline, and a commit or checkout keeps the
   entries up to CurrentIndex and removes exactly those after it.  (Spec) *)
C9_PrefixKept ==
    \A k \in 1..Len(pending) :
        IsOperation(pending[k]) =>
            /\ IsPrefix(SubSeq(Timeline(Before(k)), 1, CurrentIndex(Before(k)) + 1),
                        Timeline(After(k)))
            /\ IsMove(pending[k]) => Timeline(After(k)) = Timeline(Before(k))

(* C10: once initialization has completed, the Timeline is not empty,
   CurrentIndex is a position of it, and the exposed current root is
   Timeline[CurrentIndex] and a non-empty snapshot id.  (Spec) *)
C10_CurrentIsSnapshot ==
    ready =>
        /\ Len(Timeline(state)) >= 1
        /\ CurrentIndex(state) \in 0..(Len(Timeline(state)) - 1)
        /\ state.currentRoot = Timeline(state)[CurrentIndex(state) + 1]
        /\ state.currentRoot # NoRoot

-----------------------------------------------------------------------------
(* the state that the operations issued so far add up to: the rendered state
   with the queued updates applied *)
Issued == ApplyAll(state, pending)

(* a step that is a call of op *)
Called(op) == moves' = moves + 1 /\ ret'.op = op

(* no commit or checkout is waiting to be rendered: every snapshot of the
   Timeline is a rendered one, and only undo and redo calls may be queued *)
OnlyMovesQueued == \A k \in 1..Len(pending) : IsMove(pending[k])

(* C11: undo() called when CurrentIndex = 0 returns false and changes
   nothing; called otherwise it returns true, CurrentIndex goes down by
   exactly 1, the current root becomes the preceding Timeline entry and the
   Timeline is the same sequence.  Stated for the calls made while no commit
   or checkout waits to be rendered.  (Spec) *)
C11_UndoMovesBack ==
    [][(Called("undo") /\ OnlyMovesQueued) =>
          LET before == Issued
              after == ApplyAll(state', pending')
          IN  IF CurrentIndex(before) = 0
              THEN ret'.value = "false" /\ after = before
              ELSE /\ ret'.value = "true"
                   /\ CurrentIndex(after) = CurrentIndex(before) - 1
                   /\ after.currentRoot =
                          Timeline(before)[CurrentIndex(before)]
                   /\ Timeline(after) = Timeline(before)]_vars

(* C12: redo() called when CurrentIndex is the last position returns false
   and changes nothing; called otherwise it returns true, CurrentIndex goes up
   by exactly 1, the current root becomes the following Timeline entry and
   the Timeline is the same sequence.  Stated for the calls made while no
   commit or checkout waits to be rendered.  (Spec) *)
C12_RedoMovesForward ==
    [][(Called("redo") /\ OnlyMovesQueued) =>
          LET before == Issued
              after == ApplyAll(state', pending')
          IN  IF CurrentIndex(before) = Len(Timeline(before)) - 1
              THEN ret'.value = "false" /\ after = before
              ELSE /\ ret'.value = "true"
                   /\ CurrentIndex(after) = CurrentIndex(before) + 1
                   /\ after.currentRoot =
                          Timeline(before)[CurrentIndex(before) + 2]
                   /\ Timeline(after) = Timeline(before)]_vars

(* the history that callers see in a state: Timeline, CurrentIndex, current *)
History(s) == <<Timeline(s), CurrentIndex(s), s.currentRoot>>

(* C13: undo() directly followed by redo() restores the current root,
   CurrentIndex and the whole Timeline: the redo is accepted, and a queued
   undo followed by the queued redo gives back the state before the undo.
   (Spec) *)
C13_UndoThenRedoRestores ==
    /\ ~(/\ ret = Ret("redo", "false")
          /\ pending # <<>>
          /\ Last(pending).type = "undo")
    /\ \A k \in 1..Len(pending) :
           (/\ k < Len(pending)
            /\ pending[k].type = "undo"
            /\ pending[k + 1].type = "redo"
            /\ Before(k).currentRoot # NoRoot) =>
               History(After(k + 1)) = History(Before(k))

(* a checkout of a snapshot id: not empty and not the name of a branch *)
IsCheckoutOfId(s, u) ==
    u.type = "checkout" /\ u.arg # NoRoot /\ u.arg \notin DOMAIN s.branches

(* C14: a checkout of id from a current root P can be undone like a commit:
   right after it undo is available and leads back to P, and the redo after
   that undo leads to id again.  (Spec) *)
C14_CheckoutIsUndoable ==
    \A k \in 1..Len(pending) :
        (IsCheckoutOfId(Before(k), pending[k]) /\ Before(k).currentRoot # NoRoot) =>
            /\ CanUndo(After(k))
            /\ LET undone == UndoUpdate(After(k), Last(After(k).undoStack))
               IN  /\ undone.currentRoot = Before(k).currentRoot
                   /\ CanRedo(undone)
                   /\ RedoUpdate(undone, Last(undone.redoStack)).currentRoot =
                          pending[k].arg

(* C15: a checkout of id made while not at the tip keeps the Timeline up to
   the prior CurrentIndex, drops the redo tail and appends id: from
   [S0, S1, S2] at index 1, checkout(Sx) gives [S0, S1, Sx] at index 2, no
   redo is left, and an undo then leads to S1 with exactly [Sx] to redo.
   (Spec) *)
C15_CheckoutTruncates ==
    \A k \in 1..Len(pending) :
        (/\ IsCheckoutOfId(Before(k), pending[k])
         /\ Before(k).currentRoot # NoRoot
         /\ CanRedo(Before(k))) =>
            /\ Timeline(After(k)) =
                   SubSeq(Timeline(Before(k)), 1, CurrentIndex(Before(k)) + 1)
                       \o <<pending[k].arg>>
            /\ CurrentIndex(After(k)) = Len(Timeline(After(k))) - 1
            /\ ~CanRedo(After(k))
            /\ CanUndo(After(k))
            /\ LET undone == UndoUpdate(After(k), Last(After(k).undoStack))
               IN  /\ undone.currentRoot = Before(k).currentRoot
                   /\ undone.redoStack = <<pending[k].arg>>

(* C16: a checkout with an empty snapshot id is rejected before any state
   change: the Timeline, CurrentIndex and the current root are after it what
   they were before it.  (Spec) *)
C16_EmptyCheckoutRejected ==
    \A k \in 1..Len(pending) :
        (pending[k].type = "checkout" /\ pending[k].arg = NoRoot) =>
            History(After(k)) = History(Before(k))

(* a step that is a call of the public interface *)
IsCall == moves' = moves + 1 \/ Len(items') = Len(items) + 1

(* C17: a call of mutate, undo, redo, checkout, get or scan made before
   ready fails with the not-ready error and changes no state: nothing is
   queued for the engine and no state update is queued.  (SpecBoot) *)
C17_NotReadyFails ==
    [][(~ready /\ IsCall) =>
          /\ ret'.value = "notReady"
          /\ UNCHANGED <<state, pending, rootRef, queue, processing, items>>]_vars

-----------------------------------------------------------------------------
(* Subscriptions *)

InFlight(ev) == ev.st \in {"fp", "get"}

SubSettled == \A e \in 1..Len(sub.evals) : ~InFlight(sub.evals[e])

Completes(e) ==
    /\ e \in 1..Len(sub.evals)
    /\ InFlight(sub.evals[e])
    /\ sub'.evals[e].st # sub.evals[e].st

(* C18: once the provider has rendered every update, its effects have run and
   the evaluations of the subscription have settled, the subscription shows
   the fingerprint and the value of the watched key in the current snapshot,
   whichever of commit, undo, redo and checkout led there *)
C18_SubscriptionFollowsCurrent ==
    (Quiescent /\ SubSettled /\ sub.evals # <<>>)
        => /\ sub.shown.fingerprint = Fingerprint(state.currentRoot)
           /\ sub.shown.data.val = Val(state.currentRoot)
           /\ sub.prevFp = Fingerprint(state.currentRoot)
           /\ ~sub.shown.loading

(* settled after an undo of the commit that wrote the key: the fingerprint is
   again the one seen before that commit *)
C18_Witness ==
    /\ Quiescent /\ SubSettled
    /\ Len(sub.evals) >= 3
    /\ sub.evals[2].st = "done"
    /\ state.currentRoot = CreatedRoot
    /\ CanRedo(state) /\ Fingerprint(Last(state.redoStack)) = "fp:v1"
    /\ sub.shown.fingerprint = "fp:none"
    /\ sub.shown.data.obj >= 3

(* C19: an evaluation that obtains the fingerprint the subscription already
   stores issues no get, and leaves the stored fingerprint, the cached value
   and the value shown as they are, the same object included *)
C19_EqualFingerprintUnchanged ==
    [][\A e \in 1..MaxEvals :
         (/\ Completes(e)
          /\ sub.evals[e].st = "fp"
          /\ ~sub.evals[e].cancelled
          /\ Fingerprint(sub.evals[e].root) = sub.prevFp)
            => /\ sub'.evals[e].st = "unchanged"
               /\ sub'.prevFp = sub.prevFp
               /\ sub'.prevData = sub.prevData
               /\ sub'.shown.data = sub.shown.data
               /\ sub'.shown.fingerprint = sub.shown.fingerprint]_vars

(* the second of two commits leaves the key alone: its evaluation reports
   unchanged and the value fetched after the first commit is still shown *)
C19_Witness ==
    \E e \in 2..Len(sub.evals) :
        /\ sub.evals[e].st = "unchanged"
        /\ sub.evals[e - 1].st = "done"
        /\ sub.shown.data.obj = e - 1
        /\ sub.prevData = sub.shown.data

(* C20: the completion of an evaluation that is no longer the latest one of
   the subscription changes neither the stored fingerprint, nor the cached
   value, nor the state shown, and issues no get *)
C20_StaleIsDiscarded ==
    [][\A e \in 1..MaxEvals :
         (Completes(e) /\ e < Len(sub.evals))
            => /\ sub'.evals[e].st = "dropped"
               /\ sub'.prevFp = sub.prevFp
               /\ sub'.prevData = sub.prevData
               /\ sub'.shown = sub.shown]_vars

(* an evaluation overtaken while its get was in flight has been dropped, and
   the result of the newer one is shown *)
C20_Witness ==
    \E e \in 1..Len(sub.evals) - 1 :
        /\ sub.evals[e].st = "dropped"
        /\ sub.evals[e + 1].st = "done"
        /\ sub.shown.data.obj = e + 1
        /\ sub.shown.fingerprint = Fingerprint(state.currentRoot)

Ended == ~sub.mounted \/ ~sub.key

(* C21: once the subscription has ended, by unmount or by a key that became
   undefined, no evaluation is started, and an evaluation that completes or
   fails is dropped: the state shown, the stored fingerprint and the cached
   value stay as they are *)
C21_EndedIsDiscarded ==
    [][Ended =>
         /\ Len(sub'.evals) = Len(sub.evals)
         /\ \A e \in 1..MaxEvals :
              Completes(e) => /\ sub'.evals[e].st = "dropped"
                              /\ sub'.prevFp = sub.prevFp
                              /\ sub'.prevData = sub.prevData
                              /\ sub'.shown = sub.shown]_vars

(* the latest evaluation can only be cancelled by the end of the
   subscription: it has been dropped, on a root that has since moved on *)
C21_Witness ==
    /\ Ended
    /\ sub.evals # <<>>
    /\ Last(sub.evals).st = "dropped"
    /\ Len(items) > 0

(* C22: get(key) and scan(opts) read the snapshot that is current when they
   are called, the calls that have returned before them included; stated for
   the reads made when no effect is waiting to run *)
C22_ReadsAtCurrent ==
    [][(ready /\ syncEffect = <<>> /\ Called("get"))
          => ret'.value = Issued.currentRoot]_vars

(* a read made once a commit and an undo have been rendered *)
C22_Witness ==
    /\ ret.op = "get"
    /\ Quiescent
    /\ CanRedo(state)
    /\ ret.value = state.currentRoot

Fails(e) == Completes(e) /\ sub'.evals[e].st = "failed"

(* C23: a read that fails changes nothing but its own call: a get that
   throws leaves the history, the write queue and the subscription as they
   are; a failing fetch of a subscription leaves the history, the write queue
   and the other evaluations as they are and only marks the error in the
   state of that subscription, whose stored fingerprint and cached value are
   kept *)
C23_ReadFailureIsLocal ==
    [][/\ (Called("get") /\ ret'.value = "error")
            => UNCHANGED <<state, pending, rootRef, queue, processing, items,
                           syncEffect, sub>>
       /\ \A e \in 1..MaxEvals :
            Fails(e)
              => /\ UNCHANGED <<state, pending, rootRef, queue, processing,
                                items, syncEffect, ret>>
                 /\ \A k \in 1..Len(sub.evals) :
                        k # e => sub'.evals[k] = sub.evals[k]
                 /\ sub'.prevFp = sub.prevFp
                 /\ sub'.prevData = sub.prevData
                 /\ sub'.shown.data = sub.shown.data
                 /\ sub'.shown.fingerprint = sub.shown.fingerprint
                 /\ sub'.shown.error]_vars

(* an evaluation has failed while a value fetched by an earlier one is
   cached *)
C23_Witness ==
    /\ sub.evals # <<>>
    /\ Last(sub.evals).st = "failed"
    /\ sub.shown.error
    /\ sub.shown.data.obj # 0
    /\ sub.shown.fingerprint # NoFp
    /\ Len(items) > 0

-----------------------------------------------------------------------------
(* Persistence *)

SaveInFlight(sv) == sv.st \in {"open", "write", "close"}

SaveMoves(k) ==
    /\ k \in 1..Len(opfs.saves)
    /\ SaveInFlight(opfs.saves[k])
    /\ opfs'.saves[k] # opfs.saves[k]

SaveFails(k) == SaveMoves(k) /\ opfs'.saves[k].st = "failed"

(* C24: no step of a save, a failure at opening, writing or closing
   included, changes the history state, the updaters queued, the value a call
   returned or the write queue; calls return and are rendered whatever the
   saves in flight do *)
C24_SaveFailureIsHarmless ==
    [][\A k \in 1..MaxSaves :
         SaveMoves(k)
           => UNCHANGED <<state, pending, ready, syncEffect, rootRef, queueRef,
                          queue, processing, items, moves, ret>>]_vars

(* the save of the first commit has failed and the commit is in the history;
   a later call has returned meanwhile *)
C24_Witness ==
    /\ Len(opfs.saves) >= 3
    /\ opfs.saves[3].st = "failed"
    /\ Len(items) > 0 /\ items[1].st = "committed"
    /\ ret.op = "undo" /\ ret.value = "true"

WellFormed(p) ==
    /\ Len(Timeline(p)) >= 1
    /\ CurrentIndex(p) \in 0..(Len(Timeline(p)) - 1)
    /\ Timeline(p)[CurrentIndex(p) + 1] = p.currentRoot

(* C25: every render that changes the history state is followed by a save
   of exactly the rendered state; the payload of every save and the content of
   the file are captures of one state, position within the history *)
C25_SavedAfterEveryChange ==
    [][/\ (pending # <<>> /\ pending' = <<>> /\ state' # state)
            => opfs'.saveEffect = <<Payload(state')>>
       /\ (opfs.saveEffect # <<>> /\ opfs'.saveEffect = <<>>)
            => /\ Len(opfs'.saves) = Len(opfs.saves) + 1
               /\ Last(opfs'.saves) = Save(Payload(state))
       /\ \A k \in 1..Len(opfs'.saves) :
            SaveInFlight(opfs'.saves[k]) => WellFormed(opfs'.saves[k].payload)
       /\ LET f == opfs'.files[MetadataPath(StoreName)]
          IN  (f.by = StoreName /\ f.kind = "json") => WellFormed(f.payload)]_vars

(* the file holds the state after a commit and an undo, written by the save
   of that render *)
C25_Witness ==
    LET f == opfs.files[MetadataPath(StoreName)]
    IN  /\ f.by = StoreName /\ f.kind = "json"
        /\ f.payload = Payload(state)
        /\ CanRedo(state)
        /\ Quiescent
        /\ f # opfs.atStart

Untouched == moves = 0 /\ items = <<>> /\ pending = <<>>

(* C26: once ready, and before any call, the history is the persisted one
   if the metadata found at start is well-formed, and the fresh [S] with
   index 0 otherwise *)
C26_InitAdoptsPersisted ==
    (ready /\ Untouched)
        => IF opfs.atStart.kind = "json" /\ WellFormed(opfs.atStart.payload)
           THEN /\ Timeline(state) = Timeline(opfs.atStart.payload)
                /\ CurrentIndex(state) = CurrentIndex(opfs.atStart.payload)
           ELSE /\ Timeline(state) = <<CreatedRoot>>
                /\ CurrentIndex(state) = 0

(* ready with well-formed metadata found at start *)
C26_Witness ==
    /\ ready /\ Untouched
    /\ opfs.atStart.kind = "json"

(* C29: the metadata file of a store name is written only by the provider
   constructed with that store name *)
C29_MetadataScopedToStore ==
    \A n \in {StoreName, OtherStoreName} :
        LET f == opfs.files[MetadataPath(n)]
        IN  f # opfs.atStart => f.by = n

(* both providers have saved *)
C29_Witness ==
    /\ \E k \in 1..Len(opfs.saves) : opfs.saves[k].st = "done"
    /\ opfs.files[MetadataPath(OtherStoreName)].by = OtherStoreName

(* Vocabulary of the history scan claims *)
Scanned == ret.op = "historyScan"

Range(seq) == {seq[k] : k \in 1..Len(seq)}

NoRepeat(seq) == \A j, k \in 1..Len(seq) : seq[j] = seq[k] => j = k

(* the entries of a direction: CurrentIndex of them behind the current
   snapshot, length - 1 - CurrentIndex of them ahead of it *)
Available(s, reverse) ==
    IF reverse THEN CurrentIndex(s) ELSE Len(Timeline(s)) - 1 - CurrentIndex(s)

(* C27: in every state the undo-direction total of historyScan is
   CurrentIndex and the redo-direction total is length(Timeline) - 1 -
   CurrentIndex, both as computed in the state and as returned by the last
   call; the redo-direction total and historyOffsetFromHead are 0 exactly
   when nothing can be redone *)
C27_TotalsFollowIndex ==
    /\ \A reverse \in BOOLEAN :
          HistoryScanResult(state, 0, PageLimit, reverse).total = Available(state, reverse)
    /\ Scanned => ret.page.total = Available(state, ret.page.reverse)
    /\ HistoryOffsetFromHead(state) = 0 <=> ~CanRedo(state)
    /\ HistoryScanResult(state, 0, PageLimit, FALSE).total = 0 <=> ~CanRedo(state)

(* a scan toward newer entries returned after some undos, with entries on
   both sides of the current snapshot *)
C27_Witness ==
    /\ Scanned
    /\ ~ret.page.reverse
    /\ ret.page.total > 1
    /\ CurrentIndex(state) > 1
    /\ HistoryOffsetFromHead(state) > 1

(* C28: the data returned by historyScan are the entries offset+1 ..
   offset+limit of its direction counted from the current snapshot, as many
   of them as exist; the page at offset 0 followed by the page at offset
   PageLimit is the first 2 * PageLimit entries, the two share no snapshot
   when no snapshot is twice in the Timeline, and the first entry of the
   undo direction is the snapshot undo moves to *)
C28_PageIsSliceNearestFirst ==
    /\ Scanned =>
          LET v == ret.page
              i == CurrentIndex(state)
              rest == Available(state, v.reverse) - v.offset
              n == IF rest <= 0 THEN 0 ELSE IF v.limit < rest THEN v.limit ELSE rest
          IN  /\ Len(v.data) = n
              /\ \A k \in 1..n :
                    v.data[k] = IF v.reverse
                                THEN Timeline(state)[i - v.offset - k + 1]
                                ELSE Timeline(state)[i + 1 + v.offset + k]
    /\ \A reverse \in BOOLEAN :
          LET p1 == HistoryScanResult(state, 0, PageLimit, reverse).data
              p2 == HistoryScanResult(state, PageLimit, PageLimit, reverse).data
              both == HistoryScanResult(state, 0, 2 * PageLimit, reverse).data
          IN  /\ p1 \o p2 = both
              /\ NoRepeat(Timeline(state)) => Range(p1) \cap Range(p2) = {}
    /\ CanUndo(state) =>
          HistoryScanResult(state, 0, 1, TRUE).data = <<Last(state.undoStack)>>

(* the second page of the undo direction returned in full, after a full
   first page *)
C28_Witness ==
    /\ Scanned
    /\ ret.page.reverse
    /\ ret.page.offset = PageLimit
    /\ Len(ret.page.data) = PageLimit
    /\ CanRedo(state)

(* C30: when a live evaluation that found a changed fingerprint completes
   its get, and the bytes fetched equal the cached bytes (or both are
   absent), the cached value object stays and is the data shown, and the
   new fingerprint is stored and shown; when the bytes differ, the value
   fetched becomes the cached value and the data shown *)
C30_EqualBytesKeepObject ==
    [][\A e \in 1..MaxEvals :
         (/\ Completes(e)
          /\ sub.evals[e].st = "get"
          /\ sub'.evals[e].st = "done")
            => LET ev == sub.evals[e]
                   data == Val(ev.getRoot)
               IN  /\ ev.fp # sub.prevFp
                   /\ sub'.prevFp = ev.fp
                   /\ sub'.shown.fingerprint = ev.fp
                   /\ sub'.shown.data = sub'.prevData
                   /\ IF sub.prevData.val = data
                      THEN sub'.prevData = sub.prevData
                      ELSE sub'.prevData = [val |-> data, obj |-> e]]_vars

(* the latest evaluation found a new fingerprint, fetched bytes equal to the
   ones an earlier evaluation had fetched, and the object of that earlier
   evaluation is still the data shown, under the new fingerprint *)
C30_Witness ==
    /\ sub.evals # <<>>
    /\ Last(sub.evals).st = "done"
    /\ sub.shown.data.obj \in 1..(Len(sub.evals) - 1)
    /\ sub.shown.data.val # "none"
    /\ sub.shown.fingerprint = "fp:" \o sub.shown.data.val
    /\ sub.prevFp = sub.shown.fingerprint

-----------------------------------------------------------------------------
(* Branch heads *)

Detached(s) == s.currentBranch = ""

Moves(u) == u.type \in {"commit", "undo", "redo"}

(* C31: a commit applied while a named branch is checked out makes the new
   root the head of that branch and leaves the other branches alone; a
   commit, undo or redo applied while on a detached commit leaves the
   branches map and the branch names unchanged *)
C31_BranchHeadsFollowOwnBranch ==
    \A k \in 1..Len(pending) :
        Moves(pending[k]) =>
            IF Detached(Before(k))
            THEN After(k).branches = Before(k).branches
            ELSE pending[k].type = "commit" =>
                    /\ DOMAIN After(k).branches = DOMAIN Before(k).branches
                    /\ After(k).branches[Before(k).currentBranch] = pending[k].arg
                    /\ \A n \in DOMAIN Before(k).branches :
                          n # Before(k).currentBranch
                             => After(k).branches[n] = Before(k).branches[n]

(* a commit is about to be applied on a detached commit, reached by the
   checkout of a raw hash *)
C31_Witness ==
    /\ Detached(state)
    /\ state.currentRoot = "x"
    /\ pending # <<>>
    /\ pending[1].type = "commit"

-----------------------------------------------------------------------------
(* Write base across schedules *)

(* the step hands submission k to the engine *)
CallStarts(k) ==
    /\ k \in 1..Len(items')
    /\ items'[k].st = "applying"
    /\ (k > Len(items) \/ items[k].st = "queued")

(* C32: with no undo, redo or checkout, every engine call is made against
   the id returned by the most recent mutation that succeeded before it (the
   initial snapshot when there is none), whatever the order of submissions,
   engine completions, renders and runs of the effect that copies the
   rendered root into the write base, the queue idle or not between two
   submissions.  (SpecWrites) *)
C32_NoLostUpdate ==
    [][\A k \in 1..MaxWrites :
          CallStarts(k) =>
              LET S == {i \in 1..(k - 1) :
                           items'[i].st \in {"resolved", "committed", "returned"}}
              IN  EngineBase(items'[k].base) =
                      IF S = {} THEN CreatedRoot ELSE items'[Max(S)].result]_vars

(* a submission handed to the engine after the commit of an earlier one was
   queued, the write queue idle in between *)
C32_Witness ==
    /\ Len(items) >= 2
    /\ items[1].st = "committed"
    /\ items[2].st = "applying"
    /\ items[2].base = state.currentRoot
    /\ queue = <<>>

(* the last call was an undo, redo or checkout that moved the pointer, and it
   has returned *)
MoveReturned ==
    \/ ret.op \in {"undo", "redo"} /\ ret.value = "true"
    \/ ret.op = "checkout"

(* C33: a mutation submitted after undo(), redo() or checkout() has returned
   is applied against the snapshot the pointer moved to, never against the
   one that was current before the call.  (Spec) *)
C33_MutateAfterMoveUsesNewRoot ==
    [][\A k \in 1..MaxSubmits :
          (/\ MoveReturned
           /\ syncEffect = <<>>
           /\ k = Len(items) + 1
           /\ CallStarts(k))
              => items'[k].base = Issued.currentRoot]_vars

(* a mutation handed to the engine while the update of a checkout that has
   returned waits to be rendered *)
C33_Witness ==
    /\ Len(items) = 1
    /\ items[1].st = "applying"
    /\ pending = <<Update("checkout", "x")>>
    /\ ret.op = "mutate"

(* C34: every undo and redo call that returned true only moves the pointer,
   whatever the pattern of calls, two calls made before the first is
   rendered included: the update it queued leaves the Timeline the same
   sequence and moves CurrentIndex by exactly 1, so that k such calls move
   it by k.  (Spec) *)
C34_MovesOnlyMovePointer ==
    \A k \in 1..Len(pending) :
        (OnlyMovesQueued /\ Before(k).currentRoot # NoRoot) =>
            /\ Timeline(After(k)) = Timeline(Before(k))
            /\ IF pending[k].type = "undo"
               THEN CurrentIndex(After(k)) + 1 = CurrentIndex(Before(k))
               ELSE CurrentIndex(After(k)) = CurrentIndex(Before(k)) + 1

(* two undo calls made back to back, neither rendered *)
C34_Witness ==
    /\ Len(pending) = 2
    /\ pending[1].type = "undo"
    /\ pending[2].type = "undo"
    /\ Len(Timeline(state)) >= 2

-----------------------------------------------------------------------------
(* Settlement of submissions *)

Accepted(i) == i <= Len(items)

(* C35: every submission accepted by enqueue() is eventually settled, and
   settled once: a settled submission is never handed to the engine again
   and keeps its outcome; an item is in the queue only while a processor is
   active, and the processing flag is false whenever the queue is empty and
   no engine call is outstanding.  (SpecWritesLive: every engine call
   settles) *)
C35_EverySubmissionSettles ==
    /\ [](queue # <<>> => processing)
    /\ []((queue = <<>> /\ Outstanding = {}) => ~processing)
    /\ [][\A i \in 1..Len(items) :
             Handled(i) =>
                 /\ Handled(i)'
                 /\ items'[i].result = items[i].result
                 /\ (items[i].st = "rejected" <=> items'[i].st = "rejected")]_vars
    /\ \A i \in 1..MaxWrites : Accepted(i) ~> (Accepted(i) /\ Handled(i))

(* the last of the submissions waited in the queue behind an engine call and
   has been settled, the processor has stopped *)
C35_Witness ==
    /\ Len(items) = MaxWrites
    /\ \A i \in 1..MaxWrites : Handled(i)
    /\ items[2].st = "rejected"
    /\ ~processing

-----------------------------------------------------------------------------
(* Consistency of what a subscription stores *)

(* C36: whenever an evaluation updates what the subscription stores, the
   fingerprint stored and the value stored are those of one snapshot: the
   fingerprint is the fingerprint of the value, also when the current
   snapshot changes between the fingerprint request and the get of the
   evaluation.  (SpecUnsub) *)
C36_FingerprintMatchesValue ==
    [][\A e \in 1..MaxEvals :
         (/\ Completes(e)
          /\ sub.evals[e].st = "get"
          /\ sub'.evals[e].st = "done")
            => /\ sub'.prevFp = Fingerprint(sub.evals[e].getRoot)
               /\ sub'.prevFp = "fp:" \o sub'.prevData.val
               /\ sub'.shown.fingerprint = "fp:" \o sub'.shown.data.val]_vars

(* an evaluation has stored a value read at a snapshot other than the one
   its effect was started for *)
C36_Witness ==
    /\ sub.evals # <<>>
    /\ Last(sub.evals).st = "done"
    /\ sub.prevData.val = Val(rootRef)
    /\ rootRef # state.currentRoot
    /\ Len(sub.evals) = 1

-----------------------------------------------------------------------------
(* Bound of the undo history *)

(* C37: the undo history never holds more than HistoryLimit snapshot ids,
   whatever the sequence of operations, and a commit applied when it holds
   HistoryLimit of them drops the oldest.  (SpecLimit) *)
C37_UndoHistoryBounded ==
    /\ Len(state.undoStack) <= HistoryLimit
    /\ \A k \in 1..Len(pending) :
          /\ Len(After(k).undoStack) <= HistoryLimit
          /\ (/\ pending[k].type = "commit"
              /\ Len(Before(k).undoStack) = HistoryLimit)
                 => After(k).undoStack =
                        Append(Tail(Before(k).undoStack), Before(k).currentRoot)

(* the undo history is full and a commit has dropped its oldest entry *)
C37_Witness ==
    /\ Len(state.undoStack) = HistoryLimit
    /\ Head(state.undoStack) # CreatedRoot
    /\ pending = <<>>

-----------------------------------------------------------------------------
(* Convergence of the persisted metadata *)

AllSaved ==
    /\ opfs.saveEffect = <<>>
    /\ \A k \in 1..Len(opfs.saves) : opfs.saves[k].st = "done"

(* C38: once every save has finished, none of them failed, and every update
   is rendered, the persisted payload is the most recent state in memory,
   also when saves overlapped.  (SpecPersist) *)
C38_PersistedIsLatest ==
    (AllSaved /\ pending = <<>> /\ Len(opfs.saves) >= 2)
        => opfs.files[MetadataPath(StoreName)] =
               File(StoreName, "json", Payload(state))

(* the save of the mount render and the save of the ready render have both
   finished and the file holds the state in memory *)
C38_Witness ==
    /\ AllSaved
    /\ pending = <<>>
    /\ ready
    /\ Len(opfs.saves) >= 2
    /\ opfs.files[MetadataPath(StoreName)] = File(StoreName, "json", Payload(state))

-----------------------------------------------------------------------------
(* The error a subscription reports *)

Succeeds(e) == Completes(e) /\ sub'.evals[e].st \in {"done", "unchanged"}

(* C39: the error a subscription reports is that of its latest completed
   evaluation: when an evaluation completes successfully, with the
   fingerprint changed or unchanged, the state shown has no error and is not
   loading, also after an earlier evaluation failed.  (SpecUnsub) *)
C39_SuccessClearsError ==
    [][\A e \in 1..MaxEvals :
          Succeeds(e) => ~sub'.shown.error /\ ~sub'.shown.loading]_vars

(* an evaluation failed and a later one fetched a new value: no error is
   shown *)
C39_Witness ==
    \E e \in 1..Len(sub.evals) :
        /\ sub.evals[e].st = "failed"
        /\ e < Len(sub.evals)
        /\ Last(sub.evals).st = "done"
        /\ ~sub.shown.error
        /\ ~sub.shown.loading

=============================================================================
